---- MODULE Spec2Model ----
(***************************************************************************)
(* A model of book/data_helpers.py: the three helper functions             *)
(* load_heart_data, plot_slice and get_directory_contents, each together   *)
(* with the part of the world it reads or writes (the dataset path on      *)
(* disk, pyplot's surfaces, a directory tree).                             *)
(*                                                                         *)
(* Every call is one action.  `ret` is what the step just taken handed to  *)
(* its caller: the call's arguments and its outcome (a returned value or a *)
(* raised exception).  A step of the environment (a file appears, a        *)
(* directory is renamed, the caller makes a new Axes) hands nothing to a   *)
(* caller and leaves `ret` at NoCall.                                      *)
(***************************************************************************)
EXTENDS Integers, Sequences, FiniteSets

VARIABLES
    dataset,    \* what is at data_path on disk
    served,     \* history of the calls: 0 none has returned a value yet, 1 one has,
                \* 2 the disk has changed since, 3 a call was made after that change
    arrays,     \* the 3D arrays the caller of plot_slice holds
    surfaces,   \* every matplotlib Axes that exists, in creation order
    tree,       \* the directory tree get_directory_contents looks at
    ret         \* the outcome of the call made by the last step

vars == <<dataset, served, arrays, surfaces, tree, ret>>

\* Python's None, as a value returned or passed.
None == [kind |-> "NoneType"]

\* The `raised` field of a call that returned normally.
NoError == "no error"

\* The value of ret after a step that is not a call.
NoCall == [op |-> "none"]

\* The history after one more call, which returned a value (ok) or raised.
AfterCall(h, ok) ==
    IF h = 0 THEN (IF ok THEN 1 ELSE 0) ELSE IF h = 2 THEN 3 ELSE h

\* The history after a change of the disk.
AfterChange(h) == IF h = 1 THEN 2 ELSE h

(***************************************************************************)
(* Bounds of the model.                                                    *)
(***************************************************************************)
\* Largest extent of each axis of a stored volume.
MaxDim == 2
\* Extent of the first two axes of the arrays given to plot_slice.
Rows == 2
Cols == 3
\* Largest extent of the third axis of the arrays given to plot_slice.
MaxDepth == 3
\* Most Axes that exist at once.
MaxSurfaces == 2
\* Most images drawn on the Axes altogether.
MaxImages == 2
\* Most entries of the directory tree.
MaxEntries == 3

(***************************************************************************)
(* N-dimensional arrays (here always 3D or 2D): a shape and the elements,  *)
(* indexed from 0 as in Python.                                            *)
(***************************************************************************)
Indices3(shape) == (0 .. shape[1] - 1) \X (0 .. shape[2] - 1) \X (0 .. shape[3] - 1)

Indices2(shape) == (0 .. shape[1] - 1) \X (0 .. shape[2] - 1)

\* The array of the given shape whose element (i, j, k) is a*i + b*j + c*k + e.
Affine(shape, a, b, c, e) ==
    [shape |-> shape,
     data  |-> [x \in Indices3(shape) |-> a * x[1] + b * x[2] + c * x[3] + e]]

\* numpy.arange(h*w*d).reshape(h, w, d): the elements counted in C order.
Arange(shape) == Affine(shape, shape[2] * shape[3], shape[3], 1, 0)

(***************************************************************************)
(* load_heart_data and the dataset on disk.                                *)
(***************************************************************************)
\* data_path, relative to the module's directory.
data_path == <<"data", "hoa_heart.zarr">>

\* Nothing is at data_path.
Absent == [kind |-> "absent"]

\* Something is at data_path that is no zarr array (an empty directory, a
\* regular file, a directory without array metadata).
Junk == [kind |-> "junk"]

Shapes3 == (1 .. MaxDim) \X (1 .. MaxDim) \X (1 .. MaxDim)

\* The volumes a zarr array at data_path may hold.
StoredVolumes ==
    UNION {{Arange(s), Affine(s, 1, 1, 1, 0), Affine(s, 0, 0, 0, 7)} : s \in Shapes3}

ZarrStore(vol) == [kind |-> "array", shape |-> vol.shape, data |-> vol.data]

Datasets == {Absent, Junk} \cup {ZarrStore(v) : v \in StoredVolumes}

\* The values callers pass as array_type: the two literals and others.
ArrayTypes == {"numpy", "zarr", "csv", "NUMPY", ""}

\* data_path.exists()
PathExists(disk) == disk.kind # "absent"

\* zarr.open_array(store=data_path, mode="r"): a lazy handle that names the
\* store and carries the shape read from its metadata, or zarr's own error
\* when there is no array at the path.
open_array(disk) ==
    IF disk.kind = "array"
    THEN [raised |-> NoError,
          value  |-> [kind |-> "zarr.Array", store |-> data_path, shape |-> disk.shape]]
    ELSE [raised |-> "zarr.ArrayNotFoundError", value |-> None]

\* handle[start:stop] on a 3D zarr array: the elements are read from the store
\* when the handle is indexed; the first axis is cut to start..stop-1 and the
\* other two are taken whole.
ZarrSlice(handle, disk, start, stop) ==
    LET shape == <<stop - start, handle.shape[2], handle.shape[3]>>
    IN  [kind  |-> "ndarray",
         shape |-> shape,
         data  |-> [x \in Indices3(shape) |-> disk.data[<<x[1] + start, x[2], x[3]>>]]]

\* A plausible slip in handle[:]: the slice stops one short of the axis.
ZarrAllButLast(handle, disk) == ZarrSlice(handle, disk, 0, handle.shape[1] - 1)

\* handle[:]: the slice with both ends left out, 0 to the length of the axis.
ZarrAll(handle, disk) == ZarrSlice(handle, disk, 0, handle.shape[1])

\* numpy.array(a): a new array with a's shape and elements.
np_array(a) == [kind |-> "ndarray", shape |-> a.shape, data |-> a.data]

\* A full materialization of a handle by its holder: every element of the
\* handle's shape read from the store, one index at a time.
Materialize(handle, disk) ==
    [kind  |-> "ndarray",
     shape |-> handle.shape,
     data  |-> [x \in Indices3(handle.shape) |-> disk.data[x]]]

\* A plausible slip: the last branch falls back to the handle instead of raising.
load_heart_data_fallback(array_type, disk) ==
    IF ~PathExists(disk)
    THEN [raised |-> "FileNotFoundError", value |-> None, opened |-> FALSE]
    ELSE LET arr_zarr == open_array(disk)
         IN  IF arr_zarr.raised # NoError
             THEN [raised |-> arr_zarr.raised, value |-> None, opened |-> TRUE]
             ELSE IF array_type = "numpy"
             THEN [raised |-> NoError, opened |-> TRUE,
                   value  |-> np_array(ZarrAll(arr_zarr.value, disk))]
             ELSE [raised |-> NoError, value |-> arr_zarr.value, opened |-> TRUE]

\* A plausible slip: the existence check is left out and the store is opened
\* whatever is at the path.
load_heart_data_unchecked(array_type, disk) ==
    LET arr_zarr == open_array(disk)
    IN  IF arr_zarr.raised # NoError
        THEN [raised |-> arr_zarr.raised, value |-> None, opened |-> TRUE]
        ELSE IF array_type = "numpy"
        THEN [raised |-> NoError, opened |-> TRUE,
              value  |-> np_array(ZarrAll(arr_zarr.value, disk))]
        ELSE IF array_type = "zarr"
        THEN [raised |-> NoError, value |-> arr_zarr.value, opened |-> TRUE]
        ELSE [raised |-> "ValueError", value |-> None, opened |-> TRUE]

\* A plausible slip: array_type is validated before the store is opened.
load_heart_data_validate_first(array_type, disk) ==
    IF ~PathExists(disk)
    THEN [raised |-> "FileNotFoundError", value |-> None, opened |-> FALSE]
    ELSE IF array_type \notin {"numpy", "zarr"}
    THEN [raised |-> "ValueError", value |-> None, opened |-> FALSE]
    ELSE LET arr_zarr == open_array(disk)
         IN  IF arr_zarr.raised # NoError
             THEN [raised |-> arr_zarr.raised, value |-> None, opened |-> TRUE]
             ELSE IF array_type = "numpy"
             THEN [raised |-> NoError, opened |-> TRUE,
                   value  |-> np_array(ZarrAll(arr_zarr.value, disk))]
             ELSE [raised |-> NoError, value |-> arr_zarr.value, opened |-> TRUE]

\* load_heart_data(array_type) on a disk: the exception raised or the value
\* returned, and whether the call got as far as opening the store.
load_heart_data(array_type, disk) ==
    IF ~PathExists(disk)
    THEN [raised |-> "FileNotFoundError", value |-> None, opened |-> FALSE]
    ELSE LET arr_zarr == open_array(disk)
         IN  IF arr_zarr.raised # NoError
             THEN [raised |-> arr_zarr.raised, value |-> None, opened |-> TRUE]
             ELSE IF array_type = "numpy"
             THEN [raised |-> NoError, opened |-> TRUE,
                   value  |-> np_array(ZarrAll(arr_zarr.value, disk))]
             ELSE IF array_type = "zarr"
             THEN [raised |-> NoError, value |-> arr_zarr.value, opened |-> TRUE]
             ELSE [raised |-> "ValueError", value |-> None, opened |-> TRUE]

\* One call load_heart_data(array_type).
Load(array_type) ==
    LET out == load_heart_data(array_type, dataset)
    IN  /\ ret' = [op |-> "load_heart_data", array_type |-> array_type,
                   raised |-> out.raised, value |-> out.value, opened |-> out.opened]
        /\ served' = AfterCall(served, out.raised = NoError)
        /\ UNCHANGED <<dataset, arrays, surfaces, tree>>

\* The dataset directory is renamed or removed.
RemoveDataset ==
    /\ PathExists(dataset)
    /\ dataset' = Absent
    /\ ret' = NoCall
    /\ served' = AfterChange(served)
    /\ UNCHANGED <<arrays, surfaces, tree>>

\* Something is put at data_path: the dataset is renamed back or written.
PutDataset(d) ==
    /\ ~PathExists(dataset)
    /\ d # Absent
    /\ dataset' = d
    /\ ret' = NoCall
    /\ served' = AfterChange(served)
    /\ UNCHANGED <<arrays, surfaces, tree>>

(***************************************************************************)
(* The loader on its own: the dataset comes and goes between the calls.    *)
(***************************************************************************)
InitLoad ==
    /\ dataset \in Datasets
    /\ served = 0
    /\ arrays = <<>>
    /\ surfaces = <<>>
    /\ tree = {}
    /\ ret = NoCall

NextLoad ==
    \/ \E t \in ArrayTypes : Load(t)
    \/ RemoveDataset
    \/ \E d \in Datasets : PutDataset(d)

SpecLoad == InitLoad /\ [][NextLoad]_vars

(***************************************************************************)
(* Claims about load_heart_data, checked under SpecLoad.                   *)
(***************************************************************************)
\* The last step was a call of load_heart_data.
IsLoad == ret.op = "load_heart_data"

Recognised == {"numpy", "zarr"}

\* C1, as stated: every call with an array_type that is neither "numpy" nor
\* "zarr" raises ValueError and returns nothing.
C1_AsStated ==
    (IsLoad /\ ret.array_type \notin Recognised)
        => (ret.raised = "ValueError" /\ ret.value = None)

\* C1, amended: when a valid zarr array is at the dataset path, every call
\* with an array_type that is neither "numpy" nor "zarr" raises ValueError and
\* returns neither an array nor a handle.
C1_Amended ==
    (IsLoad /\ ret.array_type \notin Recognised /\ dataset.kind = "array")
        => (ret.raised = "ValueError" /\ ret.value = None)

C1_Witness ==
    /\ IsLoad
    /\ ret.array_type = "csv"
    /\ dataset.kind = "array"
    /\ ret.raised = "ValueError"

\* C2: a call made while nothing is at the dataset path raises
\* FileNotFoundError without opening the store, whatever array_type is and
\* whatever calls came before it.
C2_MissingPath ==
    (IsLoad /\ ~PathExists(dataset))
        => (ret.raised = "FileNotFoundError" /\ ~ret.opened /\ ret.value = None)

\* A call fails on the missing path after an earlier call had returned a value.
C2_Witness ==
    /\ IsLoad
    /\ served = 3
    /\ ~PathExists(dataset)
    /\ ret.array_type = "numpy"
    /\ ret.raised = "FileNotFoundError"

\* C3: the array load_heart_data("numpy") returns has the shape and the
\* elements of a full materialization of the handle load_heart_data("zarr")
\* returns on the same store.
C3_EagerEqualsLazy ==
    (IsLoad /\ ret.array_type = "numpy" /\ ret.raised = NoError)
        => LET lazy == load_heart_data("zarr", dataset)
               full == Materialize(lazy.value, dataset)
           IN  /\ lazy.raised = NoError
               /\ lazy.value.kind = "zarr.Array"
               /\ ret.value.kind = "ndarray"
               /\ ret.value.shape = full.shape
               /\ ret.value.shape = dataset.shape
               /\ DOMAIN ret.value.data = Indices3(dataset.shape)
               /\ \A x \in Indices3(dataset.shape) :
                      /\ ret.value.data[x] = full.data[x]
                      /\ ret.value.data[x] = dataset.data[x]

\* An eager load of a volume with more than one element along every axis and
\* elements that differ.
C3_Witness ==
    /\ IsLoad
    /\ ret.array_type = "numpy"
    /\ ret.raised = NoError
    /\ \A i \in 1 .. 3 : ret.value.shape[i] >= 2
    /\ ret.value.data[<<0, 0, 0>>] # ret.value.data[<<1, 1, 1>>]

\* C10: when something that is no zarr array is at the dataset path, every
\* call fails with zarr's own error, whatever array_type is; the errors come
\* in the order missing path, malformed store, unrecognised array_type.
C10_ErrorPrecedence ==
    IsLoad =>
        /\ dataset.kind = "junk" =>
               (ret.raised = open_array(dataset).raised /\ ret.opened /\ ret.value = None)
        /\ ret.raised = "FileNotFoundError" <=> ~PathExists(dataset)
        /\ ret.raised = "ValueError" =>
               (dataset.kind = "array" /\ ret.array_type \notin Recognised)

C10_Witness ==
    /\ IsLoad
    /\ dataset.kind = "junk"
    /\ ret.array_type = "csv"
    /\ ret.raised = "zarr.ArrayNotFoundError"

(***************************************************************************)
(* plot_slice and the matplotlib Axes.                                     *)
(***************************************************************************)
\* Text is a sequence of one-character strings.
Digits == <<"0", "1", "2", "3", "4", "5", "6", "7", "8", "9">>

RECURSIVE Decimal(_)
\* The decimal digits of a natural number, as str() writes them.
Decimal(n) ==
    IF n < 10 THEN <<Digits[n + 1]>> ELSE Decimal(n \div 10) \o <<Digits[(n % 10) + 1]>>

\* f"{z_idx}" for an int: a minus sign before the digits of a negative one.
FormatInt(z) == IF z < 0 THEN <<"-">> \o Decimal(0 - z) ELSE Decimal(z)

\* f"Slice at z={z_idx}"
SliceTitle(z_idx) ==
    <<"S", "l", "i", "c", "e", " ", "a", "t", " ", "z", "=">> \o FormatInt(z_idx)

\* sub in text, as Python's `in` on strings.
Contains(text, sub) ==
    \E i \in 0 .. Len(text) - Len(sub) : SubSeq(text, i + 1, i + Len(sub)) = sub

\* The arrays a caller may hold: a numpy.arange volume of the largest depth,
\* and one of depth 1.
CallerArrays == {<<Arange(<<Rows, Cols, MaxDepth>>)>>, <<Arange(<<Rows, Cols, 1>>)>>}

\* The z_idx values tried on an array whose third axis has the given depth:
\* every index of the axis, counted from the front and from the end, and the
\* first index beyond each end.
ZIndices(depth) == (0 - (depth + 1)) .. depth

\* A new Axes, as plt.subplots() makes it: no image, no title, axes drawn.
FreshAxes == [images |-> <<>>, title |-> <<>>, axison |-> TRUE]

\* A slip: the index is taken along the first axis, array[z_idx, :, :].
GetSliceFirstAxis(array, z_idx) ==
    LET depth == array.shape[1]
        k == IF z_idx < 0 THEN z_idx + depth ELSE z_idx
        shape == <<array.shape[2], array.shape[3]>>
    IN  IF z_idx < 0 - depth \/ z_idx >= depth
        THEN [raised |-> "IndexError", value |-> None]
        ELSE [raised |-> NoError,
              value  |-> [shape |-> shape,
                          data  |-> [x \in Indices2(shape) |-> array.data[<<k, x[1], x[2]>>]]]]

\* A slip: a negative index is refused instead of counted from the end.
GetSliceNoWrap(array, z_idx) ==
    LET depth == array.shape[3]
        shape == <<array.shape[1], array.shape[2]>>
    IN  IF z_idx < 0 \/ z_idx >= depth
        THEN [raised |-> "IndexError", value |-> None]
        ELSE [raised |-> NoError,
              value  |-> [shape |-> shape,
                          data  |-> [x \in Indices2(shape) |-> array.data[<<x[1], x[2], z_idx>>]]]]

\* array[:, :, z_idx] as numpy (and zarr) index a 3D array: the first two axes
\* whole, the third fixed; an index from -depth to -1 counts from the end, any
\* other index outside 0..depth-1 raises IndexError.
GetSlice(array, z_idx) ==
    LET depth == array.shape[3]
        k == IF z_idx < 0 THEN z_idx + depth ELSE z_idx
        shape == <<array.shape[1], array.shape[2]>>
    IN  IF z_idx < 0 - depth \/ z_idx >= depth
        THEN [raised |-> "IndexError", value |-> None]
        ELSE [raised |-> NoError,
              value  |-> [shape |-> shape,
                          data  |-> [x \in Indices2(shape) |-> array.data[<<x[1], x[2], k>>]]]]

\* ax.imshow(data, cmap=cmap): one more image on the Axes, drawn over the others.
imshow(axes, data, cmap) ==
    [axes EXCEPT !.images = Append(@, [data |-> data, cmap |-> cmap])]

\* ax.set_title(text)
set_title(axes, text) == [axes EXCEPT !.title = text]

\* ax.axis("off")
axis_off(axes) == [axes EXCEPT !.axison = FALSE]

\* The Axes plot_slice draws on: ax = 0 stands for ax=None, and then it is
\* the Axes plt.subplots() has just appended.
Target(ax, before) == IF ax = 0 THEN Len(before) + 1 ELSE ax

\* A slip: a new Axes is made whether or not one was given.
plot_slice_always_new(array, z_idx, ax, before) ==
    LET made   == Append(before, FreshAxes)
        target == Len(made)
        slice  == GetSlice(array, z_idx)
    IN  IF slice.raised # NoError
        THEN [raised |-> slice.raised, value |-> None, surfaces |-> made]
        ELSE [raised |-> NoError, value |-> None,
              surfaces |-> [made EXCEPT ![target] =
                  axis_off(set_title(imshow(@, slice.value, "Grays_r"),
                                     SliceTitle(z_idx)))]]

\* plot_slice(array, z_idx=z_idx, ax=ax) with the Axes `before` in existence:
\* the exception raised or the value returned, and the Axes afterwards.
plot_slice(array, z_idx, ax, before) ==
    LET made   == IF ax = 0 THEN Append(before, FreshAxes) ELSE before
        target == Target(ax, before)
        slice  == GetSlice(array, z_idx)
    IN  IF slice.raised # NoError
        THEN [raised |-> slice.raised, value |-> None, surfaces |-> made]
        ELSE [raised |-> NoError, value |-> None,
              surfaces |-> [made EXCEPT ![target] =
                  axis_off(set_title(imshow(@, slice.value, "Grays_r"),
                                     SliceTitle(z_idx)))]]

RECURSIVE TotalImages(_)
\* The images drawn on all the Axes together.
TotalImages(axs) ==
    IF axs = <<>> THEN 0 ELSE Len(axs[1].images) + TotalImages(Tail(axs))

\* One call plot_slice(arrays[a], z_idx=z_idx, ax=ax).
Plot(a, z_idx, ax) ==
    LET out == plot_slice(arrays[a], z_idx, ax, surfaces)
    IN  /\ Len(out.surfaces) <= MaxSurfaces
        /\ TotalImages(out.surfaces) <= MaxImages
        /\ surfaces' = out.surfaces
        /\ ret' = [op |-> "plot_slice", array |-> a, z_idx |-> z_idx, ax |-> ax,
                   raised |-> out.raised, value |-> out.value]
        /\ UNCHANGED <<dataset, served, arrays, tree>>

\* The caller makes an Axes of its own with plt.subplots().
NewAxes ==
    /\ Len(surfaces) < MaxSurfaces
    /\ surfaces' = Append(surfaces, FreshAxes)
    /\ ret' = NoCall
    /\ UNCHANGED <<dataset, served, arrays, tree>>

InitPlot ==
    /\ dataset = Absent
    /\ served = 0
    /\ arrays \in CallerArrays
    /\ surfaces = <<>>
    /\ tree = {}
    /\ ret = NoCall

NextPlot ==
    \/ \E a \in DOMAIN arrays :
          \E z \in ZIndices(arrays[a].shape[3]), ax \in 0 .. Len(surfaces) : Plot(a, z, ax)
    \/ NewAxes

SpecPlot == InitPlot /\ [][NextPlot]_vars

(***************************************************************************)
(* Claims about plot_slice, checked under SpecPlot.                        *)
(***************************************************************************)
\* The last step was a call of plot_slice.
IsPlot == ret.op = "plot_slice"

\* The Axes the last call drew on: the one given, or the one it made (the
\* newest).
Drawn == IF ret.ax = 0 THEN Len(surfaces) ELSE ret.ax

\* The colour maps of matplotlib that run from black to white or back.
Grayscale == {"gray", "gray_r", "grey", "grey_r", "Grays", "Grays_r", "Greys", "Greys_r"}

\* C6: after plot_slice(array, z_idx=z, ax=surface) with z in bounds, the
\* surface shows array[:, :, z] (first two axes kept, third fixed at z) with a
\* grayscale colour map, its title contains "z=<z>" and its axis decorations
\* are off.
C6_SliceDisplayed ==
    IsPlot =>
        LET arr   == arrays[ret.array]
            depth == arr.shape[3]
            z     == ret.z_idx
            k     == IF z < 0 THEN z + depth ELSE z
        IN  /\ (0 <= z /\ z < depth) => ret.raised = NoError
            /\ ret.raised = NoError =>
                   LET axes == surfaces[Drawn]
                       top  == axes.images[Len(axes.images)]
                   IN  /\ Len(axes.images) >= 1
                       /\ top.data.shape = <<arr.shape[1], arr.shape[2]>>
                       /\ DOMAIN top.data.data = Indices2(top.data.shape)
                       /\ \A i \in 0 .. arr.shape[1] - 1, j \in 0 .. arr.shape[2] - 1 :
                              top.data.data[<<i, j>>] = arr.data[<<i, j, k>>]
                       /\ top.cmap \in Grayscale
                       /\ Contains(axes.title, <<"z", "=">> \o FormatInt(z))
                       /\ z = 2 => Contains(axes.title, <<"z", "=", "2">>)
                       /\ z = -1 => Contains(axes.title, <<"z", "=", "-", "1">>)
                       /\ ~axes.axison

\* plot_slice(array, z_idx=2, ax=surface) on a surface that already showed an
\* image.
C6_Witness ==
    /\ IsPlot
    /\ ret.ax # 0
    /\ ret.z_idx = 2
    /\ ret.raised = NoError
    /\ Len(surfaces[ret.ax].images) = 2
    /\ arrays[ret.array].shape[3] > 2

\* C7, as stated: every z_idx outside 0..depth-1 makes plot_slice fail with
\* IndexError.
C7_AsStated ==
    IsPlot =>
        LET depth == arrays[ret.array].shape[3]
        IN  (ret.z_idx < 0 \/ ret.z_idx >= depth) => ret.raised = "IndexError"

\* C7, amended: plot_slice fails with IndexError exactly for the z_idx outside
\* -depth..depth-1 (an index from -depth to -1 counts from the end of the
\* axis), and a failing call draws no image on any Axes.
C7_Amended ==
    [][ret'.op = "plot_slice" =>
           LET depth == arrays[ret'.array].shape[3]
               z     == ret'.z_idx
           IN  /\ ret'.raised \in {NoError, "IndexError"}
               /\ ret'.raised = "IndexError" <=> (z < 0 - depth \/ z >= depth)
               /\ ret'.raised = "IndexError" =>
                      \A i \in 1 .. Len(surfaces') :
                          Len(surfaces'[i].images) =
                              IF i <= Len(surfaces) THEN Len(surfaces[i].images) ELSE 0
      ]_vars

\* A call with z_idx = depth has failed on a given surface that shows an image.
C7_Witness ==
    /\ IsPlot
    /\ ret.z_idx = arrays[ret.array].shape[3]
    /\ ret.raised = "IndexError"
    /\ ret.ax # 0
    /\ Len(surfaces[ret.ax].images) = 1

\* C8: plot_slice makes a new Axes exactly when none is given; when one is
\* given, every other Axes and the input array are left as they were; it
\* returns None.
C8_Frame ==
    [][ret'.op = "plot_slice" =>
           /\ Len(surfaces') = Len(surfaces) + (IF ret'.ax = 0 THEN 1 ELSE 0)
           /\ \A i \in 1 .. Len(surfaces) : i # ret'.ax => surfaces'[i] = surfaces[i]
           /\ arrays' = arrays
           /\ ret'.value = None
      ]_vars

\* A call has drawn on the first of two surfaces; the second shows an image.
C8_Witness ==
    /\ IsPlot
    /\ ret.ax = 1
    /\ ret.raised = NoError
    /\ Len(surfaces) = 2
    /\ Len(surfaces[2].images) = 1

\* C9: a failing plot_slice call has no partial effect: no Axes is changed
\* and none is made.
C9_NoPartialEffect ==
    [][(ret'.op = "plot_slice" /\ ret'.raised # NoError) => surfaces' = surfaces]_vars

(***************************************************************************)
(* get_directory_contents and the directory tree.                          *)
(***************************************************************************)
\* File names are sequences of code points, so that they compare as Python
\* strings do: "B.txt", "a.txt", "b.txt" and "c".
Names ==
    {<<66, 46, 116, 120, 116>>, <<97, 46, 116, 120, 116>>,
     <<98, 46, 116, 120, 116>>, <<99>>}

\* The paths of the model, relative to the directory the caller made: the
\* directory itself, its children and their children.
Paths == {<<>>} \cup {<<n>> : n \in Names} \cup {<<n, m>> : n \in Names, m \in Names}

\* Path.parent and Path.name
Parent(p) == SubSeq(p, 1, Len(p) - 1)

Name(p) == p[Len(p)]

\* The kind of what is at path p in tree t: the root is always a directory.
KindAt(t, p) ==
    IF p = <<>> THEN "dir"
    ELSE IF \E e \in t : e.path = p THEN (CHOOSE e \in t : e.path = p).kind
    ELSE "absent"

\* dirpath.is_dir()
is_dir(t, p) == KindAt(t, p) = "dir"

\* The entries dirpath.glob("*") yields: the immediate children, of any kind.
Children(t, p) == {e.path : e \in {x \in t : Len(x.path) = Len(p) + 1 /\ Parent(x.path) = p}}

\* The orders in which the file system may hand out the entries of a set.
Orders(S) ==
    {o \in [1 .. Cardinality(S) -> S] : \A i, j \in 1 .. Cardinality(S) : o[i] = o[j] => i = j}

RECURSIVE StrLess(_, _)
\* a < b on Python strings: by code point, a proper prefix first.
StrLess(a, b) ==
    IF b = <<>> THEN FALSE
    ELSE IF a = <<>> THEN TRUE
    ELSE IF a[1] # b[1] THEN a[1] < b[1]
    ELSE StrLess(Tail(a), Tail(b))

RECURSIVE Insert(_, _)
\* x put into the sorted list s, after the elements not greater than it.
Insert(x, s) ==
    IF s = <<>> THEN <<x>>
    ELSE IF StrLess(x, s[1]) THEN <<x>> \o s
    ELSE <<s[1]>> \o Insert(x, Tail(s))

\* A slip: the names are returned in the order glob yields them.
unsorted(names) == names

RECURSIVE sorted(_)
\* sorted(names): a new list, ascending by <.
sorted(names) ==
    IF names = <<>> THEN <<>>
    ELSE Insert(names[Len(names)], sorted(SubSeq(names, 1, Len(names) - 1)))

\* A slip: the existence of the path is checked instead of its being a directory.
get_directory_contents_exists(t, dirpath, order) ==
    IF KindAt(t, dirpath) = "absent"
    THEN [raised |-> "ValueError", value |-> None]
    ELSE [raised |-> NoError,
          value  |-> [kind |-> "list",
                      items |-> sorted([i \in DOMAIN order |-> Name(order[i])])]]

\* get_directory_contents(dirpath) in tree t, with glob yielding the children
\* in the given order.
get_directory_contents(t, dirpath, order) ==
    IF ~is_dir(t, dirpath)
    THEN [raised |-> "ValueError", value |-> None]
    ELSE [raised |-> NoError,
          value  |-> [kind |-> "list",
                      items |-> sorted([i \in DOMAIN order |-> Name(order[i])])]]

\* One call get_directory_contents(dirpath).
List(dirpath) ==
    \E order \in Orders(Children(tree, dirpath)) :
        LET out == get_directory_contents(tree, dirpath, order)
        IN  /\ ret' = [op |-> "get_directory_contents", dirpath |-> dirpath,
                       raised |-> out.raised, value |-> out.value]
            /\ served' = AfterCall(served, out.raised = NoError)
            /\ UNCHANGED <<dataset, arrays, surfaces, tree>>

\* A file or a directory is made at p, in a directory that exists.
Create(p, kind) ==
    /\ p # <<>>
    /\ KindAt(tree, p) = "absent"
    /\ is_dir(tree, Parent(p))
    /\ Cardinality(tree) < MaxEntries
    /\ tree' = tree \cup {[path |-> p, kind |-> kind]}
    /\ ret' = NoCall
    /\ served' = AfterChange(served)
    /\ UNCHANGED <<dataset, arrays, surfaces>>

\* What is at p is removed, with everything below it.
Remove(p) ==
    /\ p # <<>>
    /\ KindAt(tree, p) # "absent"
    /\ tree' = {e \in tree : e.path # p /\ ~(Len(e.path) > Len(p) /\ Parent(e.path) = p)}
    /\ ret' = NoCall
    /\ served' = AfterChange(served)
    /\ UNCHANGED <<dataset, arrays, surfaces>>

InitList ==
    /\ dataset = Absent
    /\ served = 0
    /\ arrays = <<>>
    /\ surfaces = <<>>
    /\ tree = {}
    /\ ret = NoCall

\* The paths callers pass as dirpath: the directory and each of its children,
\* whether a directory, a regular file or nothing is there.
ListArgs == {p \in Paths : Len(p) <= 1}

NextList ==
    \/ \E p \in ListArgs : List(p)
    \/ \E p \in Paths, kind \in {"file", "dir"} : Create(p, kind)
    \/ \E p \in Paths : Remove(p)

SpecList == InitList /\ [][NextList]_vars

(***************************************************************************)
(* Claims about get_directory_contents, checked under SpecList.            *)
(***************************************************************************)
\* The last step was a call of get_directory_contents.
IsList == ret.op = "get_directory_contents"

\* The names of what lies directly in directory d of the tree as it is now.
NamesIn(d) ==
    {x.path[Len(x.path)] :
        x \in {e \in tree : Len(e.path) = Len(d) + 1 /\ SubSeq(e.path, 1, Len(d)) = d}}

\* C4: a call on a directory returns the names of its immediate children as
\* they are at the time of the call, files and directories alike and nothing
\* deeper, each once, in ascending order of Python strings: {"b.txt", "a.txt",
\* "c"} gives ["a.txt", "b.txt", "c"], and "B.txt" comes before "a.txt".
C4_SortedChildren ==
    IsList =>
        /\ KindAt(tree, ret.dirpath) = "dir" => ret.raised = NoError
        /\ ret.raised = NoError =>
               LET r == ret.value.items
               IN  /\ {r[i] : i \in 1 .. Len(r)} = NamesIn(ret.dirpath)
                   /\ Len(r) = Cardinality(NamesIn(ret.dirpath))
                   /\ \A i, j \in 1 .. Len(r) : i < j => StrLess(r[i], r[j])
                   /\ NamesIn(ret.dirpath) =
                          {<<98, 46, 116, 120, 116>>, <<97, 46, 116, 120, 116>>, <<99>>}
                      => r = <<<<97, 46, 116, 120, 116>>, <<98, 46, 116, 120, 116>>, <<99>>>>
                   /\ \A i, j \in 1 .. Len(r) :
                          (r[i] = <<66, 46, 116, 120, 116>> /\ r[j] = <<97, 46, 116, 120, 116>>)
                              => i < j

\* A call on the directory holding "b.txt", "a.txt" and "c" has returned
\* ["a.txt", "b.txt", "c"], after an earlier call had returned and the
\* directory had changed.
C4_Witness ==
    /\ IsList
    /\ served = 3
    /\ ret.dirpath = <<>>
    /\ ret.raised = NoError
    /\ \E e \in tree : e.kind = "dir"
    /\ ret.value.items = <<<<97, 46, 116, 120, 116>>, <<98, 46, 116, 120, 116>>, <<99>>>>

\* C5: a call on a path that is no directory, a regular file or nothing at
\* all, raises ValueError and returns no list.
C5_NotADirectory ==
    (IsList /\ KindAt(tree, ret.dirpath) # "dir")
        => (ret.raised = "ValueError" /\ ret.value = None)

\* A call on a regular file has raised ValueError.
C5_Witness ==
    /\ IsList
    /\ KindAt(tree, ret.dirpath) = "file"
    /\ ret.raised = "ValueError"

====
